---- MODULE Spec2Model ----
(***************************************************************************)
(* Model of app.py: the camera-image analysis server.                      *)
(*                                                                         *)
(* Flask runs with threaded=True (app.py:1106), so every request is        *)
(* handled by its own thread.  A thread of the model handles one request   *)
(* at a time; each action is one step of a handler between two accesses    *)
(* of shared state (the two JSON files, latest_frames, frame_lock).        *)
(*                                                                         *)
(* Representation choices:                                                 *)
(*  - an image is identified with what the detectors extract from it: the  *)
(*    set of object labels of confidence > 0.5, the y coordinates of the   *)
(*    pose keypoints (with the two flags they give), the face count, the   *)
(*    edge density (percent) and the mean brightness;                      *)
(*  - objects_found is kept as the set of its labels: the code only tests  *)
(*    membership in it;                                                    *)
(*  - confidence scores are integers in hundredths (0.95 is 95);           *)
(*  - datetime.now() is the counter clock, advanced by each               *)
(*    classification; the timestamp None is 0;                             *)
(*  - a file is absent, ok (holds a complete JSON document), empty (just   *)
(*    truncated by open(..., 'w')) or garbled (two writers wrote over      *)
(*    each other); json.load raises on the last two;                       *)
(*  - file removal follows POSIX: a writer that holds the file open when   *)
(*    it is removed writes to the unlinked file, which no path names.      *)
(***************************************************************************)
EXTENDS Integers, Sequences, FiniteSets, TLC

\* ------------------------------------------------------------------ bounds
NumThreads == 2
MaxRequests == 2

\* The log cap of save_session, 1000 in app.py:52, scaled down.
SESSION_CAP == 4
\* Window sizes of get_stats (20, 100, 10 in app.py:331-341), scaled down.
RECENT_CONF == 2
RECENT_DIST == 3
RECENT_LIST == 1

Threads == 1..NumThreads

\* The student_id form field may be missing (app.py:264).
FormIds == {"cam1", "missing"}
Subjects == {"cam1", "unknown"}

\* ------------------------------------------------------------------ images
FoodLabels == {"fork", "spoon", "bowl", "cup", "bottle"}
Labels == {"cell phone", "person", "book", "laptop", "chair"} \cup FoodLabels

\* The y coordinates of the keypoints of the first person the pose detector
\* finds, in whole pixels (0: the keypoint was not found); n is the number
\* of keypoints, 0 when no person was found.
mkPoints(n, nose_y, left_shoulder_y, right_shoulder_y, left_wrist_y, right_wrist_y) ==
    [n |-> n, nose_y |-> nose_y,
     left_shoulder_y |-> left_shoulder_y, right_shoulder_y |-> right_shoulder_y,
     left_wrist_y |-> left_wrist_y, right_wrist_y |-> right_wrist_y]

\* The head-down test taking the shoulder average for valid when it is
\* positive.
HeadDownAverageValid(points) ==
    /\ points.n >= 11
    /\ points.nose_y > 0
    /\ points.left_shoulder_y + points.right_shoulder_y > 0
    /\ 2 * points.nose_y > points.left_shoulder_y + points.right_shoulder_y + 60

\* app.py:114-125.  nose_y > (left + right) / 2 + 30, with both sides doubled.
HeadDown(points) ==
    /\ points.n >= 11
    /\ points.nose_y > 0
    /\ points.left_shoulder_y > 0
    /\ 2 * points.nose_y > points.left_shoulder_y + points.right_shoulder_y + 60

\* app.py:114-119, 127-129.
HandRaised(points) ==
    /\ points.n >= 11
    /\ \/ points.left_wrist_y < points.left_shoulder_y - 50
       \/ points.right_wrist_y < points.right_shoulder_y - 50

\* Keypoints of a person sitting upright with the hands down (shoulders at
\* 200, nose at 150, wrists at 300), the head lowered to 240 for hd and the
\* left wrist lifted to 100 for hr.
PosePoints(hd, hr) ==
    mkPoints(17, IF hd THEN 240 ELSE 150, 200, 200, IF hr THEN 100 ELSE 300, 300)

\* An image with the posture of PosePoints(hd, hr); head_down and
\* hand_raised name that posture.
mkImage(objs, hd, hr, fc, ed, br) ==
    [objects |-> objs, head_down |-> hd, hand_raised |-> hr,
     face_count |-> fc, edge_density |-> ed, brightness |-> br,
     points |-> PosePoints(hd, hr)]

\* An image of one person with the given keypoints.
mkPoseImage(points) ==
    [objects |-> {"person"},
     head_down |-> HeadDown(points), hand_raised |-> HandRaised(points),
     face_count |-> 1, edge_density |-> 10, brightness |-> 120,
     points |-> points]

\* Every image the classifiers can tell apart.
AllImages ==
    { mkImage(o, hd, hr, fc, ed, br) :
        o \in SUBSET Labels, hd \in BOOLEAN, hr \in BOOLEAN,
        fc \in {1}, ed \in {10}, br \in {120} }
    \cup
    { mkImage(o, hd, hr, fc, ed, br) :
        o \in {{"person"}}, hd \in {FALSE}, hr \in {FALSE},
        fc \in 0..2, ed \in {14, 15, 16}, br \in {49, 50, 51} }

\* The images the cameras of the concurrent model send.
PhoneImage == mkImage({"person", "cell phone"}, FALSE, FALSE, 0, 10, 120)
PlainImage == mkImage({"person"}, FALSE, FALSE, 1, 10, 120)
SampleImages == {PhoneImage, PlainImage}

\* The two images in turn.
Alternate(k) == IF k % 2 = 0 THEN PhoneImage ELSE PlainImage

\* np.zeros((480, 640, 3)) with the text "Waiting for <student_id>...".
NoPoints == mkPoints(0, 0, 0, 0, 0, 0)

Placeholder(student_id) ==
    [objects |-> {}, head_down |-> FALSE, hand_raised |-> FALSE,
     face_count |-> 0, edge_density |-> 0, brightness |-> 0,
     points |-> NoPoints, waiting_for |-> student_id]

NoImage ==
    [objects |-> {}, head_down |-> FALSE, hand_raised |-> FALSE,
     face_count |-> 0, edge_density |-> 0, brightness |-> 0,
     points |-> NoPoints]

\* Images of one person whose nose and shoulders lie at, next to and away
\* from the thresholds of the head-down test, some keypoints not found.
PoseImages ==
    { mkPoseImage(mkPoints(n, nose_y, left_shoulder_y, right_shoulder_y, 300, 300)) :
        n \in {0, 10, 11, 17}, nose_y \in {0, 100, 130, 131, 230, 231},
        left_shoulder_y \in {0, 200}, right_shoulder_y \in {0, 200, 201} }

\* ------------------------------------------------------------- classifiers
\* The cascade with the laptop rule tested before the raised hand.
CascadeLaptopFirst(objects_found, head_down, hand_raised) ==
    IF "cell phone" \in objects_found
    THEN [activity |-> "Using Phone", is_unusual |-> TRUE, confidence_score |-> 95]
    ELSE IF "person" \notin objects_found
    THEN [activity |-> "Student Absent", is_unusual |-> TRUE, confidence_score |-> 90]
    ELSE IF \E food \in FoodLabels : food \in objects_found
    THEN [activity |-> "Eating/Drinking", is_unusual |-> TRUE, confidence_score |-> 85]
    ELSE IF head_down /\ "book" \notin objects_found /\ "laptop" \notin objects_found
    THEN [activity |-> "Sleeping/Distracted", is_unusual |-> TRUE, confidence_score |-> 75]
    ELSE IF "laptop" \in objects_found
    THEN [activity |-> "Working on Laptop", is_unusual |-> FALSE, confidence_score |-> 85]
    ELSE IF hand_raised
    THEN [activity |-> "Hand Raised (Participating)", is_unusual |-> FALSE, confidence_score |-> 90]
    ELSE IF "book" \in objects_found
    THEN [activity |-> "Reading/Studying", is_unusual |-> FALSE, confidence_score |-> 80]
    ELSE IF head_down
    THEN [activity |-> "Writing/Focused", is_unusual |-> FALSE, confidence_score |-> 70]
    ELSE [activity |-> "Attentive/Listening", is_unusual |-> FALSE, confidence_score |-> 65]

\* The cascade with the absence of a person tested before the phone.
CascadeAbsentFirst(objects_found, head_down, hand_raised) ==
    IF "person" \notin objects_found
    THEN [activity |-> "Student Absent", is_unusual |-> TRUE, confidence_score |-> 90]
    ELSE IF "cell phone" \in objects_found
    THEN [activity |-> "Using Phone", is_unusual |-> TRUE, confidence_score |-> 95]
    ELSE IF \E food \in FoodLabels : food \in objects_found
    THEN [activity |-> "Eating/Drinking", is_unusual |-> TRUE, confidence_score |-> 85]
    ELSE IF head_down /\ "book" \notin objects_found /\ "laptop" \notin objects_found
    THEN [activity |-> "Sleeping/Distracted", is_unusual |-> TRUE, confidence_score |-> 75]
    ELSE IF hand_raised
    THEN [activity |-> "Hand Raised (Participating)", is_unusual |-> FALSE, confidence_score |-> 90]
    ELSE IF "laptop" \in objects_found
    THEN [activity |-> "Working on Laptop", is_unusual |-> FALSE, confidence_score |-> 85]
    ELSE IF "book" \in objects_found
    THEN [activity |-> "Reading/Studying", is_unusual |-> FALSE, confidence_score |-> 80]
    ELSE IF head_down
    THEN [activity |-> "Writing/Focused", is_unusual |-> FALSE, confidence_score |-> 70]
    ELSE [activity |-> "Attentive/Listening", is_unusual |-> FALSE, confidence_score |-> 65]

\* The cascade with the lowered head tested before the laptop and the book.
CascadeWritingFirst(objects_found, head_down, hand_raised) ==
    IF "cell phone" \in objects_found
    THEN [activity |-> "Using Phone", is_unusual |-> TRUE, confidence_score |-> 95]
    ELSE IF "person" \notin objects_found
    THEN [activity |-> "Student Absent", is_unusual |-> TRUE, confidence_score |-> 90]
    ELSE IF \E food \in FoodLabels : food \in objects_found
    THEN [activity |-> "Eating/Drinking", is_unusual |-> TRUE, confidence_score |-> 85]
    ELSE IF head_down /\ "book" \notin objects_found /\ "laptop" \notin objects_found
    THEN [activity |-> "Sleeping/Distracted", is_unusual |-> TRUE, confidence_score |-> 75]
    ELSE IF hand_raised
    THEN [activity |-> "Hand Raised (Participating)", is_unusual |-> FALSE, confidence_score |-> 90]
    ELSE IF head_down
    THEN [activity |-> "Writing/Focused", is_unusual |-> FALSE, confidence_score |-> 70]
    ELSE IF "laptop" \in objects_found
    THEN [activity |-> "Working on Laptop", is_unusual |-> FALSE, confidence_score |-> 85]
    ELSE IF "book" \in objects_found
    THEN [activity |-> "Reading/Studying", is_unusual |-> FALSE, confidence_score |-> 80]
    ELSE [activity |-> "Attentive/Listening", is_unusual |-> FALSE, confidence_score |-> 65]

\* app.py:131-181.  The cascade of analyze_image_advanced.
Cascade(objects_found, head_down, hand_raised) ==
    IF "cell phone" \in objects_found
    THEN [activity |-> "Using Phone", is_unusual |-> TRUE, confidence_score |-> 95]
    ELSE IF "person" \notin objects_found
    THEN [activity |-> "Student Absent", is_unusual |-> TRUE, confidence_score |-> 90]
    ELSE IF \E food \in FoodLabels : food \in objects_found
    THEN [activity |-> "Eating/Drinking", is_unusual |-> TRUE, confidence_score |-> 85]
    ELSE IF head_down /\ "book" \notin objects_found /\ "laptop" \notin objects_found
    THEN [activity |-> "Sleeping/Distracted", is_unusual |-> TRUE, confidence_score |-> 75]
    ELSE IF hand_raised
    THEN [activity |-> "Hand Raised (Participating)", is_unusual |-> FALSE, confidence_score |-> 90]
    ELSE IF "laptop" \in objects_found
    THEN [activity |-> "Working on Laptop", is_unusual |-> FALSE, confidence_score |-> 85]
    ELSE IF "book" \in objects_found
    THEN [activity |-> "Reading/Studying", is_unusual |-> FALSE, confidence_score |-> 80]
    ELSE IF head_down
    THEN [activity |-> "Writing/Focused", is_unusual |-> FALSE, confidence_score |-> 70]
    ELSE [activity |-> "Attentive/Listening", is_unusual |-> FALSE, confidence_score |-> 65]

\* The primary classifier reporting the confidence in percent.
analyze_image_advanced_Percent(image, student_id, now) ==
    LET head_down == HeadDown(image.points)
        hand_raised == HandRaised(image.points)
        d == Cascade(image.objects, head_down, hand_raised)
    IN  [student_id |-> student_id,
         activity |-> d.activity,
         objects_detected |-> image.objects,
         is_unusual |-> d.is_unusual,
         confidence_score |-> d.confidence_score * 100,
         brightness_level |-> image.brightness,
         head_down |-> head_down,
         hand_raised |-> hand_raised,
         timestamp |-> now]

\* app.py:87-181.
analyze_image_advanced(image, student_id, now) ==
    LET head_down == HeadDown(image.points)
        hand_raised == HandRaised(image.points)
        d == Cascade(image.objects, head_down, hand_raised)
    IN  [student_id |-> student_id,
         activity |-> d.activity,
         objects_detected |-> image.objects,
         is_unusual |-> d.is_unusual,
         confidence_score |-> d.confidence_score,
         brightness_level |-> image.brightness,
         head_down |-> head_down,
         hand_raised |-> hand_raised,
         timestamp |-> now]

\* The fallback classifier testing the brightness before the edge density.
analyze_image_basic_BrightnessFirst(image, student_id, now) ==
    LET d == IF image.face_count = 0
             THEN [activity |-> "Student Absent", is_unusual |-> TRUE]
             ELSE IF image.brightness < 50
             THEN [activity |-> "Low Visibility", is_unusual |-> TRUE]
             ELSE IF image.edge_density > 15
             THEN [activity |-> "High Activity Detected", is_unusual |-> FALSE]
             ELSE [activity |-> "Attentive", is_unusual |-> FALSE]
    IN  [student_id |-> student_id,
         activity |-> d.activity,
         objects_detected |-> {},
         is_unusual |-> d.is_unusual,
         confidence_score |-> 60,
         brightness_level |-> image.brightness,
         face_count |-> image.face_count,
         edge_density |-> image.edge_density,
         timestamp |-> now]

\* The fallback classifier with a dark image not flagged as unusual.
analyze_image_basic_DarkUsual(image, student_id, now) ==
    LET d == IF image.face_count = 0
             THEN [activity |-> "Student Absent", is_unusual |-> TRUE]
             ELSE IF image.edge_density > 15
             THEN [activity |-> "High Activity Detected", is_unusual |-> FALSE]
             ELSE IF image.brightness < 50
             THEN [activity |-> "Low Visibility", is_unusual |-> FALSE]
             ELSE [activity |-> "Attentive", is_unusual |-> FALSE]
    IN  [student_id |-> student_id,
         activity |-> d.activity,
         objects_detected |-> {},
         is_unusual |-> d.is_unusual,
         confidence_score |-> 60,
         brightness_level |-> image.brightness,
         face_count |-> image.face_count,
         edge_density |-> image.edge_density,
         timestamp |-> now]

\* app.py:198-223.
analyze_image_basic(image, student_id, now) ==
    LET d == IF image.face_count = 0
             THEN [activity |-> "Student Absent", is_unusual |-> TRUE]
             ELSE IF image.edge_density > 15
             THEN [activity |-> "High Activity Detected", is_unusual |-> FALSE]
             ELSE IF image.brightness < 50
             THEN [activity |-> "Low Visibility", is_unusual |-> TRUE]
             ELSE [activity |-> "Attentive", is_unusual |-> FALSE]
    IN  [student_id |-> student_id,
         activity |-> d.activity,
         objects_detected |-> {},
         is_unusual |-> d.is_unusual,
         confidence_score |-> 60,
         brightness_level |-> image.brightness,
         face_count |-> image.face_count,
         edge_density |-> image.edge_density,
         timestamp |-> now]

NoAnalysis ==
    [student_id |-> "", activity |-> "Unknown", objects_detected |-> {},
     is_unusual |-> FALSE, confidence_score |-> 0, brightness_level |-> 0,
     timestamp |-> 0]

\* ------------------------------------------------------------------- state
VARIABLES
    object_detector,  \* object_detector is not None (app.py:31, 37)
    pose_detector,    \* pose_detector is not None (app.py:32, 38)
    sessionsFile,   \* SESSIONS_FILE
    statsFile,      \* STATS_FILE
    latest_frames,  \* dict student_id -> image (app.py:26)
    frame_lock,     \* the thread holding frame_lock, 0 when free (app.py:27)
    clock,          \* datetime.now()
    feed,           \* feed[k]: the (student_id field, image) pairs a camera may
                    \* send when k requests are still to come
    budget,         \* the number of requests the clients have yet to send
    pc,             \* per thread: position in its handler
    req,            \* per thread: student_id and image of the request
    analysis,       \* per thread: local 'analysis' / 'session_data'
    sessions,       \* per thread: local 'sessions'
    stats,          \* per thread: local 'stats'
    orphan,         \* per thread: the file it holds open was removed
    frame,          \* per thread: local 'frame' of generate_frames
    keys,           \* per thread: local 'streams' / 'active_streams'
    resp,           \* the last response sent (for a stream: the last frame)
    \* history variables, read by no action's guard
    recorded,       \* timestamps in the order save_session wrote them to the log
    okd,            \* the analyses answered with success
    cleared,        \* clear_data has been called at least once
    dirty,          \* threads whose running clear_data a file write has overlapped;
                    \* 0 when one has overlapped or followed the last response
    logged,         \* timestamps of the records save_session has written (app.py:55)
    counted,        \* timestamps of the records update_statistics has written (app.py:72)
    prior           \* logged, as it was when the last clear_data began

shared == <<object_detector, pose_detector, sessionsFile, statsFile, latest_frames, frame_lock, clock, feed, budget>>
locals == <<pc, req, analysis, sessions, stats, orphan, frame, keys, resp>>
history == <<recorded, okd, cleared, dirty, logged, counted, prior>>
vars == <<shared, locals, history>>

\* ------------------------------------------------------------------ models
\* Loading the models as the first one failing alone would leave them: each
\* detector set from its own load.
LoadModelsEach(object_ok, pose_ok) ==
    [object_detector |-> object_ok, pose_detector |-> pose_ok]

\* app.py:30-38.  object_ok, pose_ok: the call YOLO(...) returns; a call that
\* raises takes the except clause, which sets both detectors to None.
LoadModels(object_ok, pose_ok) ==
    IF object_ok /\ pose_ok
    THEN [object_detector |-> TRUE, pose_detector |-> TRUE]
    ELSE [object_detector |-> FALSE, pose_detector |-> FALSE]

StartModels(object_ok, pose_ok) ==
    /\ object_detector = LoadModels(object_ok, pose_ok).object_detector
    /\ pose_detector = LoadModels(object_ok, pose_ok).pose_detector

\* app.py:280: the test 'object_detector and pose_detector'.
modelsLoaded == object_detector /\ pose_detector

\* ------------------------------------------------------------------- files
AbsentFile(empty) == [st |-> "absent", data |-> empty]

\* app.py:79-84.
DefaultStats ==
    [total_sessions |-> 0, unusual_count |-> 0,
     activities |-> [a \in {} |-> 0], last_updated |-> 0]

\* json.load raises on an empty or garbled file.
Readable(file) == file.st \in {"absent", "ok"}

\* app.py:41-46.
load_sessions(file) == IF file.st = "ok" THEN file.data ELSE <<>>

\* app.py:74-84.
load_statistics(file) == IF file.st = "ok" THEN file.data ELSE DefaultStats

\* open(path, 'w'): creates or truncates the file.
OpenForWrite(empty) == [st |-> "empty", data |-> empty]

\* The contents of the file after json.dump(data) and close.  A writer
\* starts at offset 0 of whatever the file holds by then: onto a file it
\* truncated itself it leaves data; onto what another writer wrote in the
\* meantime it leaves data when data is at least as long, and data followed
\* by the rest of the other document otherwise.
DumpOutcomes(file, data, empty) ==
    IF file.st = "empty" \/ (file.st = "ok" /\ file.data = data)
    THEN { [st |-> "ok", data |-> data] }
    ELSE { [st |-> "ok", data |-> data], [st |-> "garbled", data |-> empty] }

\* The Python slice seq[:n]: a negative n counts from the end.
Take(seq, n) ==
    LET stop == IF n < 0 THEN Len(seq) + n ELSE n
        last == IF stop < 0 THEN 0 ELSE IF stop > Len(seq) THEN Len(seq) ELSE stop
    IN  SubSeq(seq, 1, last)

\* app.py:50-52.
Prepend(session_data, loaded) == Take(<<session_data>> \o loaded, SESSION_CAP)

\* update_statistics counting an activity it has not seen yet from 1.
FoldDefaultOne(loaded, session_data, now) ==
    LET a == session_data.activity
        old == IF a \in DOMAIN loaded.activities THEN loaded.activities[a] ELSE 1
    IN  [total_sessions |-> loaded.total_sessions + 1,
         unusual_count |-> IF session_data.is_unusual
                           THEN loaded.unusual_count + 1
                           ELSE loaded.unusual_count,
         activities |-> [x \in DOMAIN loaded.activities \cup {a} |->
                            IF x = a THEN old + 1 ELSE loaded.activities[x]],
         last_updated |-> now]

\* app.py:63-69.
Fold(loaded, session_data, now) ==
    LET a == session_data.activity
        old == IF a \in DOMAIN loaded.activities THEN loaded.activities[a] ELSE 0
    IN  [total_sessions |-> loaded.total_sessions + 1,
         unusual_count |-> IF session_data.is_unusual
                           THEN loaded.unusual_count + 1
                           ELSE loaded.unusual_count,
         activities |-> [x \in DOMAIN loaded.activities \cup {a} |->
                            IF x = a THEN old + 1 ELSE loaded.activities[x]],
         last_updated |-> now]

\* -------------------------------------------------------------------- init
NoReq == [student_id |-> "", image |-> NoImage]
NoResp == [op |-> "none", code |-> 0, body |-> 0]

InitLocals ==
    /\ pc = [t \in Threads |-> "idle"]
    /\ req = [t \in Threads |-> NoReq]
    /\ analysis = [t \in Threads |-> NoAnalysis]
    /\ sessions = [t \in Threads |-> <<>>]
    /\ stats = [t \in Threads |-> DefaultStats]
    /\ orphan = [t \in Threads |-> FALSE]
    /\ frame = [t \in Threads |-> NoImage]
    /\ keys = [t \in Threads |-> {}]
    /\ resp = NoResp

InitHistory ==
    /\ recorded = <<>>
    /\ okd = {}
    /\ cleared = FALSE
    /\ dirty = {}
    /\ logged = {}
    /\ counted = {}
    /\ prior = {}

Startup ==
    /\ sessionsFile = AbsentFile(<<>>)
    /\ statsFile = AbsentFile(DefaultStats)
    /\ latest_frames = [s \in {} |-> NoImage]
    /\ frame_lock = 0
    /\ clock = 0
    /\ InitLocals
    /\ InitHistory

Init ==
    /\ \E object_ok, pose_ok \in BOOLEAN : StartModels(object_ok, pose_ok)
    /\ feed = [k \in 1..MaxRequests |-> FormIds \X SampleImages]
    /\ budget = MaxRequests
    /\ Startup

\* One camera that sends the two images in turn; the models are loaded.
InitPersist ==
    /\ StartModels(TRUE, TRUE)
    /\ feed = [k \in 1..MaxRequests |-> {<<"cam1", Alternate(k)>>}]
    /\ budget = MaxRequests
    /\ Startup

\* ---------------------------------------------------------------- helpers
AnalyzePcs ==
    {"a_lock", "a_store", "a_classify", "a_load_sessions", "a_open_sessions",
     "a_dump_sessions", "a_load_stats", "a_open_stats", "a_dump_stats", "a_print"}
ClearPcs == {"c_remove_sessions", "c_check_stats", "c_remove_stats"}

\* The handler returns a response and the thread is free for the next
\* request; its locals are dropped.
Return(t, op, code, body) ==
    /\ pc' = [pc EXCEPT ![t] = "idle"]
    /\ resp' = [op |-> op, code |-> code, body |-> body]
    /\ req' = [req EXCEPT ![t] = NoReq]
    /\ analysis' = [analysis EXCEPT ![t] = NoAnalysis]
    /\ sessions' = [sessions EXCEPT ![t] = <<>>]
    /\ stats' = [stats EXCEPT ![t] = DefaultStats]
    /\ frame' = [frame EXCEPT ![t] = NoImage]
    /\ keys' = [keys EXCEPT ![t] = {}]

Goto(t, label) == pc' = [pc EXCEPT ![t] = label]

\* Thread t is the one a new request is given to.  The threads are
\* interchangeable: it is the idle thread of the lowest number.
Dispatch(t) ==
    /\ pc[t] = "idle"
    /\ \A u \in 1..(t - 1) : pc[u] # "idle"

\* A write of save_session or update_statistics that changes a file
\* overlaps every clear_data that is running and follows the last response.
MarkDirty == dirty' = dirty \cup {0} \cup {u \in Threads : pc[u] \in ClearPcs}

\* clear_data returns: what overlapped it has come before its response.
Settle(t) ==
    /\ dirty' = (dirty \ {0, t}) \cup (IF t \in dirty THEN {0} ELSE {})
    /\ UNCHANGED <<recorded, okd, cleared, logged, counted, prior>>


\* ------------------------------------------------- POST /api/analyze
\* analyze storing the frame before it tests whether the image decoded.
AnalyzeStoreFirst(t) ==
    /\ Dispatch(t)
    /\ \E form_id \in FormIds :
         latest_frames' = [s \in DOMAIN latest_frames \cup {form_id} |->
                              IF s = form_id THEN NoImage ELSE latest_frames[s]]
    /\ Return(t, "analyze", 400, "Failed to decode image")
    /\ budget > 0
    /\ budget' = budget - 1
    /\ UNCHANGED <<object_detector, pose_detector, sessionsFile, statsFile, frame_lock, clock, feed>>
    /\ UNCHANGED <<orphan, history>>

\* app.py:260-273.  has_image: 'image' in request.files; decoded: the value
\* cv2.imdecode returns, NoImage standing for None.
AnalyzeStart(t) ==
    /\ Dispatch(t)
    /\ budget > 0
    /\ budget' = budget - 1
    /\ \E has_image \in BOOLEAN, form_id \in FormIds, decoded \in SampleImages \cup {NoImage} :
         /\ decoded # NoImage => <<form_id, decoded>> \in feed[budget]
         /\ IF ~has_image
            THEN Return(t, "analyze", 400, "No image provided")
            ELSE IF decoded = NoImage
            THEN Return(t, "analyze", 400, "Failed to decode image")
            ELSE /\ Goto(t, "a_lock")
                 /\ req' = [req EXCEPT ![t] =
                               [student_id |-> IF form_id = "missing" THEN "unknown" ELSE form_id,
                                image |-> decoded]]
                 /\ UNCHANGED <<analysis, sessions, stats, frame, keys, resp>>
    /\ UNCHANGED <<object_detector, pose_detector, sessionsFile, statsFile, latest_frames, frame_lock, clock, feed>>
    /\ UNCHANGED <<orphan, history>>

\* app.py:276.
AnalyzeAcquire(t) ==
    /\ pc[t] = "a_lock"
    /\ frame_lock = 0
    /\ frame_lock' = t
    /\ Goto(t, "a_store")
    /\ UNCHANGED <<object_detector, pose_detector, sessionsFile, statsFile, latest_frames, clock, feed, budget>>
    /\ UNCHANGED <<req, analysis, sessions, stats, orphan, frame, keys, resp, history>>

\* The store keeping the frame a subject already has.
StoreFrameKeepFirst(frames, student_id, image) ==
    [s \in DOMAIN frames \cup {student_id} |->
        IF s \in DOMAIN frames THEN frames[s] ELSE image]

\* latest_frames[student_id] = image.copy()
StoreFrame(frames, student_id, image) ==
    [s \in DOMAIN frames \cup {student_id} |->
        IF s = student_id THEN image ELSE frames[s]]

\* analyze keeping frame_lock while it classifies the image.
AnalyzeStoreHolding(t) ==
    /\ pc[t] = "a_store"
    /\ latest_frames' = StoreFrame(latest_frames, req[t].student_id, req[t].image)
    /\ Goto(t, "a_classify")
    /\ UNCHANGED <<object_detector, pose_detector, sessionsFile, statsFile, frame_lock, clock, feed, budget>>
    /\ UNCHANGED <<req, analysis, sessions, stats, orphan, frame, keys, resp, history>>

\* app.py:277 and the release at the end of the with block.
AnalyzeStore(t) ==
    /\ pc[t] = "a_store"
    /\ latest_frames' = StoreFrame(latest_frames, req[t].student_id, req[t].image)
    /\ frame_lock' = 0
    /\ Goto(t, "a_classify")
    /\ UNCHANGED <<object_detector, pose_detector, sessionsFile, statsFile, clock, feed, budget>>
    /\ UNCHANGED <<req, analysis, sessions, stats, orphan, frame, keys, resp, history>>

\* app.py:280-283.
Route(loaded, image, student_id, now) ==
    IF loaded
    THEN analyze_image_advanced(image, student_id, now)
    ELSE analyze_image_basic(image, student_id, now)

\* The classification raising the confidence when the newest record of the
\* log shows the same activity.
ClassifySmoothed(t) ==
    /\ pc[t] = "a_classify"
    /\ clock' = clock + 1
    /\ LET fresh == Route(modelsLoaded, req[t].image, req[t].student_id, clock')
           log == load_sessions(sessionsFile)
       IN  analysis' = [analysis EXCEPT ![t] =
                           IF log # <<>> /\ log[1].activity = fresh.activity
                           THEN [fresh EXCEPT !.confidence_score = fresh.confidence_score + 5]
                           ELSE fresh]
    /\ Goto(t, "a_load_sessions")
    /\ UNCHANGED <<object_detector, pose_detector, sessionsFile, statsFile, latest_frames, frame_lock, feed, budget>>
    /\ UNCHANGED <<req, sessions, stats, orphan, frame, keys, resp, history>>

\* app.py:280-283.
Classify(t) ==
    /\ pc[t] = "a_classify"
    /\ clock' = clock + 1
    /\ analysis' = [analysis EXCEPT ![t] =
                       Route(modelsLoaded, req[t].image, req[t].student_id, clock')]
    /\ Goto(t, "a_load_sessions")
    /\ UNCHANGED <<object_detector, pose_detector, sessionsFile, statsFile, latest_frames, frame_lock, feed, budget>>
    /\ UNCHANGED <<req, sessions, stats, orphan, frame, keys, resp, history>>

\* save_session folding the record into the statistics before it writes
\* the log.
SaveLoadStatsFirst(t) ==
    /\ pc[t] = "a_load_sessions"
    /\ IF Readable(sessionsFile)
       THEN /\ sessions' = [sessions EXCEPT ![t] =
                               Prepend(analysis[t], load_sessions(sessionsFile))]
            /\ Goto(t, "a_load_stats")
            /\ UNCHANGED <<req, analysis, stats, frame, keys, resp>>
       ELSE Return(t, "analyze", 500, "JSONDecodeError")
    /\ UNCHANGED <<shared, orphan, history>>

\* app.py:50-52; an exception goes to the handler of app.py:295-299.
SaveLoad(t) ==
    /\ pc[t] = "a_load_sessions"
    /\ IF Readable(sessionsFile)
       THEN /\ sessions' = [sessions EXCEPT ![t] =
                               Prepend(analysis[t], load_sessions(sessionsFile))]
            /\ Goto(t, "a_open_sessions")
            /\ UNCHANGED <<req, analysis, stats, frame, keys, resp>>
       ELSE Return(t, "analyze", 500, "JSONDecodeError")
    /\ UNCHANGED <<shared, orphan, history>>

\* app.py:54.
SaveOpen(t) ==
    /\ pc[t] = "a_open_sessions"
    /\ sessionsFile' = OpenForWrite(<<>>)
    /\ orphan' = [orphan EXCEPT ![t] = FALSE]
    /\ Goto(t, "a_dump_sessions")
    /\ MarkDirty
    /\ UNCHANGED <<object_detector, pose_detector, statsFile, latest_frames, frame_lock, clock, feed, budget>>
    /\ UNCHANGED <<req, analysis, sessions, stats, frame, keys, resp>>
    /\ UNCHANGED <<recorded, okd, cleared, logged, counted, prior>>

\* app.py:55 and the close of the file.
SaveDump(t) ==
    /\ pc[t] = "a_dump_sessions"
    /\ IF orphan[t]
       THEN UNCHANGED <<sessionsFile, dirty>>
       ELSE /\ sessionsFile' \in DumpOutcomes(sessionsFile, sessions[t], <<>>)
            /\ MarkDirty
    /\ recorded' = IF cleared THEN recorded ELSE Append(recorded, analysis[t].timestamp)
    /\ logged' = logged \cup {analysis[t].timestamp}
    /\ orphan' = [orphan EXCEPT ![t] = FALSE]
    /\ Goto(t, "a_load_stats")
    /\ UNCHANGED <<object_detector, pose_detector, statsFile, latest_frames, frame_lock, clock, feed, budget>>
    /\ UNCHANGED <<req, analysis, sessions, stats, frame, keys, resp>>
    /\ UNCHANGED <<okd, cleared, counted, prior>>

\* app.py:61-69.
StatsLoad(t) ==
    /\ pc[t] = "a_load_stats"
    /\ IF Readable(statsFile)
       THEN /\ stats' = [stats EXCEPT ![t] =
                            Fold(load_statistics(statsFile), analysis[t], clock)]
            /\ Goto(t, "a_open_stats")
            /\ UNCHANGED <<req, analysis, sessions, frame, keys, resp>>
       ELSE Return(t, "analyze", 500, "JSONDecodeError")
    /\ UNCHANGED <<shared, orphan, history>>

\* app.py:71.
StatsOpen(t) ==
    /\ pc[t] = "a_open_stats"
    /\ statsFile' = OpenForWrite(DefaultStats)
    /\ orphan' = [orphan EXCEPT ![t] = FALSE]
    /\ Goto(t, "a_dump_stats")
    /\ MarkDirty
    /\ UNCHANGED <<object_detector, pose_detector, sessionsFile, latest_frames, frame_lock, clock, feed, budget>>
    /\ UNCHANGED <<req, analysis, sessions, stats, frame, keys, resp>>
    /\ UNCHANGED <<recorded, okd, cleared, logged, counted, prior>>

\* app.py:72 and the close of the file.
StatsDump(t) ==
    /\ pc[t] = "a_dump_stats"
    /\ IF orphan[t]
       THEN UNCHANGED <<statsFile, dirty>>
       ELSE /\ statsFile' \in DumpOutcomes(statsFile, stats[t], DefaultStats)
            /\ MarkDirty
    /\ orphan' = [orphan EXCEPT ![t] = FALSE]
    /\ counted' = counted \cup {analysis[t].timestamp}
    /\ Goto(t, "a_print")
    /\ UNCHANGED <<object_detector, pose_detector, sessionsFile, latest_frames, frame_lock, clock, feed, budget>>
    /\ UNCHANGED <<req, analysis, sessions, stats, frame, keys, resp>>
    /\ UNCHANGED <<recorded, okd, cleared, logged, prior>>

\* app.py:288-293.  The print reads len(latest_frames) outside any with block.
AnalyzeReturn(t) ==
    /\ pc[t] = "a_print"
    /\ Return(t, "analyze", 200, Cardinality(DOMAIN latest_frames))
    /\ okd' = IF cleared THEN okd ELSE okd \cup {analysis[t]}
    /\ UNCHANGED <<shared, orphan, recorded, cleared, dirty, logged, counted, prior>>

\* ------------------------------------------------- POST /api/clear
\* Every writer that holds the removed file open keeps writing to it.
Orphaned(label) == [u \in Threads |-> orphan[u] \/ pc[u] = label]

\* clear_data emptying the frame cache as well.
ClearStartDropFrames(t) ==
    /\ Dispatch(t)
    /\ budget > 0
    /\ budget' = budget - 1
    /\ Goto(t, IF sessionsFile.st # "absent" THEN "c_remove_sessions" ELSE "c_check_stats")
    /\ latest_frames' = [s \in {} |-> NoImage]
    /\ cleared' = TRUE
    /\ recorded' = <<>>
    /\ okd' = {}
    /\ dirty' = dirty \ {t}
    /\ prior' = logged
    /\ UNCHANGED <<logged, counted>>
    /\ UNCHANGED <<object_detector, pose_detector, sessionsFile, statsFile, frame_lock, clock, feed>>
    /\ UNCHANGED <<req, analysis, sessions, stats, orphan, frame, keys, resp>>

\* app.py:348.
ClearStart(t) ==
    /\ Dispatch(t)
    /\ budget > 0
    /\ budget' = budget - 1
    /\ Goto(t, IF sessionsFile.st # "absent" THEN "c_remove_sessions" ELSE "c_check_stats")
    /\ cleared' = TRUE
    /\ recorded' = <<>>
    /\ okd' = {}
    /\ dirty' = dirty \ {t}
    /\ prior' = logged
    /\ UNCHANGED <<logged, counted>>
    /\ UNCHANGED <<object_detector, pose_detector, sessionsFile, statsFile, latest_frames, frame_lock, clock, feed>>
    /\ UNCHANGED <<req, analysis, sessions, stats, orphan, frame, keys, resp>>

\* app.py:349.  os.remove raises FileNotFoundError when the file is gone.
ClearRemoveSessions(t) ==
    /\ pc[t] = "c_remove_sessions"
    /\ IF sessionsFile.st = "absent"
       THEN /\ Return(t, "clear", 500, "FileNotFoundError")
            /\ Settle(t)
            /\ UNCHANGED <<sessionsFile, orphan>>
       ELSE /\ sessionsFile' = AbsentFile(<<>>)
            /\ orphan' = Orphaned("a_dump_sessions")
            /\ Goto(t, "c_check_stats")
            /\ UNCHANGED <<req, analysis, sessions, stats, frame, keys, resp, history>>
    /\ UNCHANGED <<object_detector, pose_detector, statsFile, latest_frames, frame_lock, clock, feed, budget>>

\* app.py:350 and, when the file does not exist, app.py:352.
ClearCheckStats(t) ==
    /\ pc[t] = "c_check_stats"
    /\ IF statsFile.st # "absent"
       THEN /\ Goto(t, "c_remove_stats")
            /\ UNCHANGED <<req, analysis, sessions, stats, frame, keys, resp, history>>
       ELSE /\ Return(t, "clear", 200, "All data cleared")
            /\ Settle(t)
    /\ UNCHANGED <<shared, orphan>>

\* clear_data answering without removing the statistics file.
ClearKeepStats(t) ==
    /\ pc[t] = "c_remove_stats"
    /\ Return(t, "clear", 200, "All data cleared")
    /\ Settle(t)
    /\ UNCHANGED <<shared, orphan>>

\* app.py:351-352.
ClearRemoveStats(t) ==
    /\ pc[t] = "c_remove_stats"
    /\ IF statsFile.st = "absent"
       THEN /\ Return(t, "clear", 500, "FileNotFoundError")
            /\ UNCHANGED <<statsFile, orphan>>
       ELSE /\ statsFile' = AbsentFile(DefaultStats)
            /\ orphan' = Orphaned("a_dump_stats")
            /\ Return(t, "clear", 200, "All data cleared")
    /\ Settle(t)
    /\ UNCHANGED <<object_detector, pose_detector, sessionsFile, latest_frames, frame_lock, clock, feed, budget>>

\* ------------------------------------------------- GET /api/stats
RECURSIVE SumConfidence(_)
SumConfidence(seq) ==
    IF seq = <<>> THEN 0 ELSE Head(seq).confidence_score + SumConfidence(Tail(seq))

\* round(total / n, 2) in hundredths.  Where the quotient lies halfway
\* between two hundredths the float nearest to it decides, so both are kept.
RoundedMeans(total, n) ==
    LET q == total \div n
        r == total % n
    IN  IF 2 * r < n THEN {q} ELSE IF 2 * r > n THEN {q + 1} ELSE {q, q + 1}

\* app.py:335-337.
Distribution(seq) ==
    [a \in {seq[i].activity : i \in DOMAIN seq} |->
        Cardinality({i \in DOMAIN seq : seq[i].activity = a})]

\* get_stats returning all the records it averaged as recent_sessions.
get_stats_RecentUncut(loaded_stats, loaded_sessions) ==
    IF loaded_sessions = <<>>
    THEN {loaded_stats}
    ELSE LET recent == Take(loaded_sessions, RECENT_CONF)
         IN  { [average_confidence |-> avg,
                activity_distribution |-> Distribution(Take(loaded_sessions, RECENT_DIST)),
                recent_sessions |-> recent] @@ loaded_stats :
                  avg \in RoundedMeans(SumConfidence(recent), Len(recent)) }

\* app.py:330-343: the bodies get_stats can return for the loaded documents.
get_stats(loaded_stats, loaded_sessions) ==
    IF loaded_sessions = <<>>
    THEN {loaded_stats}
    ELSE LET recent == Take(loaded_sessions, RECENT_CONF)
         IN  { [average_confidence |-> avg,
                activity_distribution |-> Distribution(Take(loaded_sessions, RECENT_DIST)),
                recent_sessions |-> Take(recent, RECENT_LIST)] @@ loaded_stats :
                  avg \in RoundedMeans(SumConfidence(recent), Len(recent)) }

\* app.py:326.  An exception leaves the view function: Flask answers 500.
GetStatsLoad(t) ==
    /\ Dispatch(t)
    /\ budget > 0
    /\ budget' = budget - 1
    /\ IF Readable(statsFile)
       THEN /\ stats' = [stats EXCEPT ![t] = load_statistics(statsFile)]
            /\ Goto(t, "s_load_sessions")
            /\ UNCHANGED <<req, analysis, sessions, frame, keys, resp>>
       ELSE Return(t, "stats", 500, "JSONDecodeError")
    /\ UNCHANGED <<object_detector, pose_detector, sessionsFile, statsFile, latest_frames, frame_lock, clock, feed>>
    /\ UNCHANGED <<orphan, history>>

\* app.py:327-343.
GetStatsReturn(t) ==
    /\ pc[t] = "s_load_sessions"
    /\ IF Readable(sessionsFile)
       THEN \E body \in get_stats(stats[t], load_sessions(sessionsFile)) :
                Return(t, "stats", 200, body)
       ELSE Return(t, "stats", 500, "JSONDecodeError")
    /\ UNCHANGED <<shared, orphan, history>>

\* ------------------------------------------------- GET /api/sessions
\* Values of the limit query parameter; type=int accepts negative numbers.
Limits == -1..(SESSION_CAP + 1)

\* app.py:320-321.
get_sessions(loaded_sessions, limit) ==
    LET listed == Take(loaded_sessions, limit)
    IN  [sessions |-> listed, count |-> Len(listed)]

\* app.py:319.
GetSessionsStart(t) ==
    /\ Dispatch(t)
    /\ budget > 0
    /\ budget' = budget - 1
    /\ \E limit \in Limits :
         req' = [req EXCEPT ![t] = [student_id |-> "", image |-> NoImage, limit |-> limit]]
    /\ Goto(t, "l_load")
    /\ UNCHANGED <<object_detector, pose_detector, sessionsFile, statsFile, latest_frames, frame_lock, clock, feed>>
    /\ UNCHANGED <<analysis, sessions, stats, orphan, frame, keys, resp, history>>

\* app.py:320-321.
GetSessionsReturn(t) ==
    /\ pc[t] = "l_load"
    /\ IF Readable(sessionsFile)
       THEN Return(t, "sessions", 200,
                   get_sessions(load_sessions(sessionsFile), req[t].limit))
       ELSE Return(t, "sessions", 500, "JSONDecodeError")
    /\ UNCHANGED <<shared, orphan, history>>

\* ------------------------------------------------- GET /api/active_streams
\* app.py:311.
StreamsAcquire(t) ==
    /\ Dispatch(t)
    /\ budget > 0
    /\ budget' = budget - 1
    /\ frame_lock = 0
    /\ frame_lock' = t
    /\ Goto(t, "v_read")
    /\ UNCHANGED <<object_detector, pose_detector, sessionsFile, statsFile, latest_frames, clock, feed>>
    /\ UNCHANGED <<req, analysis, sessions, stats, orphan, frame, keys, resp, history>>

\* app.py:312-314.
StreamsReturn(t) ==
    /\ pc[t] = "v_read"
    /\ frame_lock' = 0
    /\ Return(t, "active_streams", 200, DOMAIN latest_frames)
    /\ UNCHANGED <<object_detector, pose_detector, sessionsFile, statsFile, latest_frames, clock, feed, budget>>
    /\ UNCHANGED <<orphan, history>>

\* ------------------------------------------------- GET /api/debug
\* app.py:357.
DebugAcquire(t) ==
    /\ Dispatch(t)
    /\ budget > 0
    /\ budget' = budget - 1
    /\ frame_lock = 0
    /\ frame_lock' = t
    /\ Goto(t, "d_read")
    /\ UNCHANGED <<object_detector, pose_detector, sessionsFile, statsFile, latest_frames, clock, feed>>
    /\ UNCHANGED <<req, analysis, sessions, stats, orphan, frame, keys, resp, history>>

\* app.py:358.
DebugRead(t) ==
    /\ pc[t] = "d_read"
    /\ keys' = [keys EXCEPT ![t] = DOMAIN latest_frames]
    /\ frame_lock' = 0
    /\ Goto(t, "d_load_sessions")
    /\ UNCHANGED <<object_detector, pose_detector, sessionsFile, statsFile, latest_frames, clock, feed, budget>>
    /\ UNCHANGED <<req, analysis, sessions, stats, orphan, frame, resp, history>>

\* app.py:360.
DebugLoadSessions(t) ==
    /\ pc[t] = "d_load_sessions"
    /\ IF Readable(sessionsFile)
       THEN /\ sessions' = [sessions EXCEPT ![t] = load_sessions(sessionsFile)]
            /\ Goto(t, "d_load_stats")
            /\ UNCHANGED <<req, analysis, stats, frame, keys, resp>>
       ELSE Return(t, "debug", 500, "JSONDecodeError")
    /\ UNCHANGED <<shared, orphan, history>>

\* Scaled from sessions[:5] (app.py:367).
DEBUG_RECENT == 1

\* app.py:363-373.
debug_info(active, loaded_sessions, loaded_stats, loaded) ==
    [status |-> "running",
     active_streams |-> active,
     total_sessions |-> Len(loaded_sessions),
     recent_sessions |-> Take(loaded_sessions, DEBUG_RECENT),
     statistics |-> loaded_stats,
     models_loaded |-> loaded]

\* app.py:361-373.
DebugReturn(t) ==
    /\ pc[t] = "d_load_stats"
    /\ IF Readable(statsFile)
       THEN Return(t, "debug", 200,
                   debug_info(keys[t], sessions[t], load_statistics(statsFile),
                               [object_detector |-> object_detector,
                                pose_detector |-> pose_detector]))
       ELSE Return(t, "debug", 500, "JSONDecodeError")
    /\ UNCHANGED <<shared, orphan, history>>

\* ------------------------------------------------- GET /api/stream/<id>
\* app.py:302-306: the response wraps the generator, which runs from here on.
StreamStart(t) ==
    /\ Dispatch(t)
    /\ budget > 0
    /\ budget' = budget - 1
    /\ \E student_id \in Subjects :
         req' = [req EXCEPT ![t] = [student_id |-> student_id, image |-> NoImage]]
    /\ Goto(t, "g_lock")
    /\ UNCHANGED <<object_detector, pose_detector, sessionsFile, statsFile, latest_frames, frame_lock, clock, feed>>
    /\ UNCHANGED <<analysis, sessions, stats, orphan, frame, keys, resp, history>>

\* app.py:229.
StreamAcquire(t) ==
    /\ pc[t] = "g_lock"
    /\ frame_lock = 0
    /\ frame_lock' = t
    /\ Goto(t, "g_read")
    /\ UNCHANGED <<object_detector, pose_detector, sessionsFile, statsFile, latest_frames, clock, feed, budget>>
    /\ UNCHANGED <<req, analysis, sessions, stats, orphan, frame, keys, resp, history>>

\* The loop handing out an empty frame for a subject it does not know.
CurrentFrameBlank(frames, student_id) ==
    IF student_id \in DOMAIN frames THEN frames[student_id] ELSE NoImage

\* app.py:230-236.
CurrentFrame(frames, student_id) ==
    IF student_id \in DOMAIN frames THEN frames[student_id] ELSE Placeholder(student_id)

\* The loop encoding and emitting the frame inside the with block.
StreamReadHolding(t) ==
    /\ pc[t] = "g_read"
    /\ frame' = [frame EXCEPT ![t] = CurrentFrame(latest_frames, req[t].student_id)]
    /\ Goto(t, "g_emit")
    /\ UNCHANGED <<object_detector, pose_detector, sessionsFile, statsFile, latest_frames, frame_lock, clock, feed, budget>>
    /\ UNCHANGED <<req, analysis, sessions, stats, orphan, keys, resp, history>>

\* The loop keeping the placeholder it made in the cache.
StreamReadInsert(t) ==
    /\ pc[t] = "g_read"
    /\ frame' = [frame EXCEPT ![t] = CurrentFrame(latest_frames, req[t].student_id)]
    /\ latest_frames' = StoreFrame(latest_frames, req[t].student_id, frame'[t])
    /\ frame_lock' = 0
    /\ Goto(t, "g_emit")
    /\ UNCHANGED <<object_detector, pose_detector, sessionsFile, statsFile, clock, feed, budget>>
    /\ UNCHANGED <<req, analysis, sessions, stats, orphan, keys, resp, history>>

\* app.py:229-236 and the release at the end of the with block.
StreamRead(t) ==
    /\ pc[t] = "g_read"
    /\ frame' = [frame EXCEPT ![t] = CurrentFrame(latest_frames, req[t].student_id)]
    /\ frame_lock' = 0
    /\ Goto(t, "g_emit")
    /\ UNCHANGED <<object_detector, pose_detector, sessionsFile, statsFile, latest_frames, clock, feed, budget>>
    /\ UNCHANGED <<req, analysis, sessions, stats, orphan, keys, resp, history>>

\* app.py:239-247: the frame is encoded and handed to the consumer.
StreamEmit(t) ==
    /\ pc[t] = "g_emit"
    /\ resp' = [op |-> "stream", code |-> 200, body |-> frame[t]]
    /\ Goto(t, "g_sleep")
    /\ UNCHANGED <<shared, req, analysis, sessions, stats, orphan, frame, keys, history>>

\* The generator ending after the frame it has emitted.
StreamSleepOnce(t) ==
    /\ pc[t] = "g_sleep"
    /\ Return(t, "stream", 200, frame[t])
    /\ UNCHANGED <<shared, orphan, history>>

\* app.py:249 and back to the head of the loop.
StreamSleep(t) ==
    /\ pc[t] = "g_sleep"
    /\ Goto(t, "g_lock")
    /\ UNCHANGED <<shared, req, analysis, sessions, stats, orphan, frame, keys, resp, history>>

\* The consumer disconnects: the generator, suspended at its yield, is closed.
StreamDisconnect(t) ==
    /\ pc[t] = "g_sleep"
    /\ Return(t, "stream", 200, frame[t])
    /\ UNCHANGED <<shared, orphan, history>>

\* -------------------------------------------------------------------- spec
Analyze(t) ==
    \/ AnalyzeStart(t) \/ AnalyzeAcquire(t) \/ AnalyzeStore(t) \/ Classify(t)
    \/ SaveLoad(t) \/ SaveOpen(t) \/ SaveDump(t)
    \/ StatsLoad(t) \/ StatsOpen(t) \/ StatsDump(t) \/ AnalyzeReturn(t)

ClearData(t) ==
    \/ ClearStart(t) \/ ClearRemoveSessions(t) \/ ClearCheckStats(t) \/ ClearRemoveStats(t)

Views(t) ==
    \/ GetStatsLoad(t) \/ GetStatsReturn(t) \/ GetSessionsStart(t) \/ GetSessionsReturn(t)
    \/ StreamsAcquire(t) \/ StreamsReturn(t)
    \/ DebugAcquire(t) \/ DebugRead(t) \/ DebugLoadSessions(t) \/ DebugReturn(t)

Stream(t) ==
    \/ StreamStart(t) \/ StreamAcquire(t) \/ StreamRead(t)
    \/ StreamEmit(t) \/ StreamSleep(t) \/ StreamDisconnect(t)

Next == \E t \in Threads : Analyze(t) \/ ClearData(t) \/ Views(t) \/ Stream(t)

NextPersist == \E t \in Threads : Analyze(t) \/ ClearData(t)

Spec == Init /\ [][Next]_vars

SpecPersist == InitPersist /\ [][NextPersist]_vars

\* One request more than the log retains, all images alike.
InitLog ==
    /\ StartModels(TRUE, TRUE)
    /\ feed = [k \in 1..(SESSION_CAP + 1) |-> {<<"cam1", PlainImage>>}]
    /\ budget = SESSION_CAP + 1
    /\ Startup

SpecLog == InitLog /\ [][NextPersist]_vars

\* The handlers that use latest_frames and frame_lock: two cameras, one of
\* them without a student_id, each sending the two images in turn.
InitFrames ==
    /\ StartModels(TRUE, TRUE)
    /\ feed = [k \in 1..MaxRequests |-> FormIds \X {Alternate(k)}]
    /\ budget = MaxRequests
    /\ Startup

NextFrames ==
    \E t \in Threads :
        \/ Analyze(t) \/ Stream(t)
        \/ StreamsAcquire(t) \/ StreamsReturn(t)
        \/ DebugAcquire(t) \/ DebugRead(t) \/ DebugLoadSessions(t) \/ DebugReturn(t)

SpecFrames == InitFrames /\ [][NextFrames]_vars

\* A request that has just stored its image, for every image the classifiers
\* can tell apart; the only step taken is the classification.
InitClassify ==
    /\ \E object_ok, pose_ok \in BOOLEAN : StartModels(object_ok, pose_ok)
    /\ \E image \in AllImages :
         /\ req = [t \in Threads |->
                     IF t = 1 THEN [student_id |-> "cam1", image |-> image] ELSE NoReq]
         /\ latest_frames = [s \in {"cam1"} |-> image]
    /\ pc = [t \in Threads |-> IF t = 1 THEN "a_classify" ELSE "idle"]
    /\ sessionsFile = AbsentFile(<<>>)
    /\ statsFile = AbsentFile(DefaultStats)
    /\ frame_lock = 0
    /\ clock = 0
    /\ feed = <<>>
    /\ budget = 0
    /\ analysis = [t \in Threads |-> NoAnalysis]
    /\ sessions = [t \in Threads |-> <<>>]
    /\ stats = [t \in Threads |-> DefaultStats]
    /\ orphan = [t \in Threads |-> FALSE]
    /\ frame = [t \in Threads |-> NoImage]
    /\ keys = [t \in Threads |-> {}]
    /\ resp = NoResp
    /\ InitHistory

NextClassify == \E t \in Threads : Classify(t)

SpecClassify == InitClassify /\ [][NextClassify]_vars

\* A request that has just stored its image, for keypoints around the
\* thresholds of the head-down test; the only step taken is the
\* classification.
InitPose ==
    /\ \E object_ok, pose_ok \in BOOLEAN : StartModels(object_ok, pose_ok)
    /\ \E image \in PoseImages :
         /\ req = [t \in Threads |->
                     IF t = 1 THEN [student_id |-> "cam1", image |-> image] ELSE NoReq]
         /\ latest_frames = [s \in {"cam1"} |-> image]
    /\ pc = [t \in Threads |-> IF t = 1 THEN "a_classify" ELSE "idle"]
    /\ sessionsFile = AbsentFile(<<>>)
    /\ statsFile = AbsentFile(DefaultStats)
    /\ frame_lock = 0
    /\ clock = 0
    /\ feed = <<>>
    /\ budget = 0
    /\ analysis = [t \in Threads |-> NoAnalysis]
    /\ sessions = [t \in Threads |-> <<>>]
    /\ stats = [t \in Threads |-> DefaultStats]
    /\ orphan = [t \in Threads |-> FALSE]
    /\ frame = [t \in Threads |-> NoImage]
    /\ keys = [t \in Threads |-> {}]
    /\ resp = NoResp
    /\ InitHistory

SpecPose == InitPose /\ [][NextClassify]_vars

\* The frame cache with the cameras sending frames in the first two requests
\* only; the later requests are streams, views and rejected uploads.
InitCache ==
    /\ StartModels(TRUE, TRUE)
    /\ feed = [k \in 1..MaxRequests |->
                 IF k >= MaxRequests - 1 THEN FormIds \X {Alternate(k)} ELSE {}]
    /\ budget = MaxRequests
    /\ Startup

SpecCache == InitCache /\ [][NextFrames]_vars

\* Every outcome of loading the models; one camera that sends the same
\* image in every request.
InitRouting ==
    /\ \E object_ok, pose_ok \in BOOLEAN : StartModels(object_ok, pose_ok)
    /\ feed = [k \in 1..MaxRequests |-> {<<"cam1", PlainImage>>}]
    /\ budget = MaxRequests
    /\ Startup

NextRouting == \E t \in Threads : Analyze(t)

SpecRouting == InitRouting /\ [][NextRouting]_vars

\* The files an earlier run of the server has left: its k-th request showed
\* a phone, a student or an empty room in turn.
EmptyRoom == mkImage({"chair"}, FALSE, FALSE, 0, 10, 120)

EarlierRecord(k) ==
    analyze_image_advanced(
        CASE k % 3 = 0 -> PhoneImage [] k % 3 = 1 -> PlainImage [] OTHER -> EmptyRoom,
        "cam1", k)

RECURSIVE EarlierLog(_)
EarlierLog(n) ==
    IF n = 0 THEN <<>> ELSE Prepend(EarlierRecord(n), EarlierLog(n - 1))

RECURSIVE EarlierStats(_)
EarlierStats(n) ==
    IF n = 0 THEN DefaultStats ELSE Fold(EarlierStats(n - 1), EarlierRecord(n), n)

\* The server restarted on the files of an earlier run of up to one request
\* more than the log retains; one camera frame, in the first request only.
InitViews ==
    /\ StartModels(TRUE, TRUE)
    /\ \E n \in 0..(SESSION_CAP + 1) :
         /\ sessionsFile = IF n = 0 THEN AbsentFile(<<>>)
                           ELSE [st |-> "ok", data |-> EarlierLog(n)]
         /\ statsFile = IF n = 0 THEN AbsentFile(DefaultStats)
                        ELSE [st |-> "ok", data |-> EarlierStats(n)]
         /\ clock = n
    /\ latest_frames = [s \in {} |-> NoImage]
    /\ frame_lock = 0
    /\ feed = [k \in 1..MaxRequests |->
                 IF k = MaxRequests THEN {<<"cam1", PlainImage>>} ELSE {}]
    /\ budget = MaxRequests
    /\ InitLocals
    /\ InitHistory

NextViews ==
    \E t \in Threads :
        \/ Analyze(t)
        \/ GetStatsLoad(t) \/ GetStatsReturn(t)
        \/ GetSessionsStart(t) \/ GetSessionsReturn(t)

SpecViews == InitViews /\ [][NextViews]_vars

\* Ingests, resets and listings of the cache keys: two cameras, one of them
\* without a student_id, that send frames in the first two requests only,
\* and one request more than MaxRequests, so that a listing can follow a
\* reset that followed an ingest.
InitReset ==
    /\ StartModels(TRUE, TRUE)
    /\ feed = [k \in 1..(MaxRequests + 1) |->
                 IF k >= MaxRequests THEN FormIds \X {PlainImage} ELSE {}]
    /\ budget = MaxRequests + 1
    /\ Startup

NextReset ==
    \E t \in Threads :
        \/ Analyze(t) \/ ClearData(t)
        \/ StreamsAcquire(t) \/ StreamsReturn(t)

SpecReset == InitReset /\ [][NextReset]_vars

\* Streams whose consumers stay connected, next to one camera that sends a
\* frame in the second request only, so that a stream can precede it.
InitStream ==
    /\ StartModels(TRUE, TRUE)
    /\ feed = [k \in 1..MaxRequests |->
                 IF k = MaxRequests - 1 THEN {<<"cam1", PlainImage>>} ELSE {}]
    /\ budget = MaxRequests
    /\ Startup

\* The steps of generate_frames while the consumer stays connected.
StreamLoop(t) ==
    StreamAcquire(t) \/ StreamRead(t) \/ StreamEmit(t) \/ StreamSleep(t)

NextStream == \E t \in Threads : Analyze(t) \/ StreamStart(t) \/ StreamLoop(t)

\* Every thread that can run is run in the end (each request has a thread
\* of its own, app.py:1106), and a thread that waits for frame_lock gets it
\* when the lock is free again and again.
FairStream ==
    \A t \in Threads :
        /\ WF_vars(AnalyzeStore(t))
        /\ WF_vars(StreamRead(t) \/ StreamEmit(t) \/ StreamSleep(t))
        /\ SF_vars(StreamAcquire(t))

SpecStream == InitStream /\ [][NextStream]_vars /\ FairStream

\* ================================================================== claims
\* A thread whose request has been classified and not yet answered.
Classified(t) ==
    pc[t] \in {"a_load_sessions", "a_open_sessions", "a_dump_sessions",
               "a_load_stats", "a_open_stats", "a_dump_stats", "a_print"}

\* The rules of section 4.2 of the specification, by number.
RuleMatches(i, image) ==
    CASE i = 1 -> "cell phone" \in image.objects
      [] i = 2 -> "person" \notin image.objects
      [] i = 3 -> image.objects \cap {"fork", "spoon", "bowl", "cup", "bottle"} # {}
      [] i = 4 -> image.head_down /\ image.objects \cap {"book", "laptop"} = {}
      [] i = 5 -> image.hand_raised
      [] i = 6 -> "laptop" \in image.objects
      [] i = 7 -> "book" \in image.objects
      [] i = 8 -> image.head_down
      [] i = 9 -> TRUE

RuleOutcome ==
    << [activity |-> "Using Phone", is_unusual |-> TRUE, confidence_score |-> 95],
       [activity |-> "Student Absent", is_unusual |-> TRUE, confidence_score |-> 90],
       [activity |-> "Eating/Drinking", is_unusual |-> TRUE, confidence_score |-> 85],
       [activity |-> "Sleeping/Distracted", is_unusual |-> TRUE, confidence_score |-> 75],
       [activity |-> "Hand Raised (Participating)", is_unusual |-> FALSE, confidence_score |-> 90],
       [activity |-> "Working on Laptop", is_unusual |-> FALSE, confidence_score |-> 85],
       [activity |-> "Reading/Studying", is_unusual |-> FALSE, confidence_score |-> 80],
       [activity |-> "Writing/Focused", is_unusual |-> FALSE, confidence_score |-> 70],
       [activity |-> "Attentive/Listening", is_unusual |-> FALSE, confidence_score |-> 65] >>

FirstRule(image) ==
    CHOOSE i \in 1..9 : RuleMatches(i, image) /\ \A j \in 1..(i - 1) : ~RuleMatches(j, image)

Decision(a) ==
    [activity |-> a.activity, is_unusual |-> a.is_unusual,
     confidence_score |-> a.confidence_score]

\* C1: whatever the object labels, head_down and hand_raised are, the primary
\* classifier returns the activity, unusual flag and confidence of the first
\* rule of the nine-rule cascade that matches.
C1_FirstMatchingRule ==
    \A t \in Threads :
        (Classified(t) /\ modelsLoaded) =>
            Decision(analysis[t]) = RuleOutcome[FirstRule(req[t].image)]

\* A book with the head down: rule 7 decides although rule 8 matches too.
C1_Witness ==
    \E t \in Threads :
        /\ Classified(t) /\ modelsLoaded
        /\ req[t].image.head_down /\ ~req[t].image.hand_raised
        /\ req[t].image.objects = {"person", "book"}
        /\ analysis[t].activity = "Reading/Studying"

\* C2: an object list with 'cell phone' in it always yields "Using Phone",
\* unusual, confidence 0.95, whatever else is detected.
C2_PhoneDominates ==
    \A t \in Threads :
        (Classified(t) /\ modelsLoaded /\ "cell phone" \in req[t].image.objects) =>
            /\ analysis[t].activity = "Using Phone"
            /\ analysis[t].is_unusual = TRUE
            /\ analysis[t].confidence_score = 95

\* A phone next to a book and a cup, nobody in the picture, hand raised.
C2_Witness ==
    \E t \in Threads :
        /\ Classified(t) /\ modelsLoaded
        /\ req[t].image.objects = {"cell phone", "book", "cup"}
        /\ req[t].image.hand_raised /\ req[t].image.head_down
        /\ analysis[t].activity = "Using Phone"

\* The unusual flag the specification documents for each activity label
\* (sections 4.2 and 4.3).
DocumentedUnusual ==
    [a \in {"Using Phone", "Student Absent", "Eating/Drinking", "Sleeping/Distracted",
             "Low Visibility"} |-> TRUE]
    @@
    [a \in {"Hand Raised (Participating)", "Working on Laptop", "Reading/Studying",
             "Writing/Focused", "Attentive/Listening", "High Activity Detected",
             "Attentive"} |-> FALSE]

\* C3: the unusual flag of a result of either classifier is the one documented
\* for its activity label, so it is a function of the label.
C3_UnusualFollowsActivity ==
    \A t \in Threads :
        Classified(t) =>
            /\ analysis[t].activity \in DOMAIN DocumentedUnusual
            /\ analysis[t].is_unusual = DocumentedUnusual[analysis[t].activity]

\* "Student Absent", the label both classifiers produce, from the fallback one.
C3_Witness ==
    \E t \in Threads :
        /\ Classified(t) /\ ~modelsLoaded
        /\ req[t].image.face_count = 0
        /\ analysis[t].activity = "Student Absent" /\ analysis[t].is_unusual


\* ------------------------------------------------------ session recorder
\* No /api/analyze request is between its acceptance and its answer.
NoAnalyzeInFlight == \A t \in Threads : pc[t] \notin AnalyzePcs

Timestamps(seq) == {seq[i].timestamp : i \in DOMAIN seq}

\* The position of a timestamp in the order of recording.
RecordedAt(ts) == CHOOSE i \in DOMAIN recorded : recorded[i] = ts

RECURSIVE SumCounts(_)
SumCounts(counts) ==
    IF DOMAIN counts = {}
    THEN 0
    ELSE LET a == CHOOSE x \in DOMAIN counts : TRUE
         IN  counts[a] + SumCounts([x \in DOMAIN counts \ {a} |-> counts[x]])

\* C4: without a reset the log never holds more than the cap, is ordered
\* newest first with the record added last at its head, and once cap+1
\* records have been recorded the first of them is no longer in it.
C4_CappedNewestFirst ==
    (~cleared /\ sessionsFile.st = "ok") =>
        LET log == sessionsFile.data
        IN  /\ Len(log) <= SESSION_CAP
            /\ Timestamps(log) \subseteq {recorded[i] : i \in DOMAIN recorded}
            /\ \A i, j \in DOMAIN log :
                   i < j => RecordedAt(log[i].timestamp) > RecordedAt(log[j].timestamp)
            /\ log # <<>> => log[1].timestamp = recorded[Len(recorded)]
            /\ Len(recorded) >= SESSION_CAP + 1 => recorded[1] \notin Timestamps(log)

\* C5: from empty files and without a reset, once N analyze requests have
\* been answered with success and none is in flight, the statistics file
\* holds total_sessions = N.
C5_TotalCountsSuccesses ==
    (~cleared /\ NoAnalyzeInFlight) =>
        /\ Readable(statsFile)
        /\ load_statistics(statsFile).total_sessions = Cardinality(okd)

\* C6: no update is lost: without a reset, once the concurrent analyze
\* requests have all been answered, every record answered with success is in
\* the log (as far as the cap allows) and is counted once in total_sessions
\* and in the count of its activity.
C6_NoLostUpdate ==
    (~cleared /\ NoAnalyzeInFlight /\ Readable(sessionsFile) /\ Readable(statsFile)) =>
        LET log == load_sessions(sessionsFile)
            st == load_statistics(statsFile)
        IN  /\ Cardinality(okd) <= SESSION_CAP =>
                   \A r \in okd : \E i \in DOMAIN log : log[i] = r
            /\ SumCounts(st.activities) = Cardinality(okd)
            /\ \A r \in okd :
                   /\ r.activity \in DOMAIN st.activities
                   /\ st.activities[r.activity] =
                          Cardinality({q \in okd : q.activity = r.activity})

CleanReset ==
    /\ resp.op = "clear"
    /\ resp.code = 200
    /\ 0 \notin dirty

\* C8: after a reset with no record in between, stats() returns the zeroed
\* statistics and list() the empty sequence.
C8_ResetZeroes ==
    CleanReset =>
        /\ Readable(statsFile) /\ Readable(sessionsFile)
        /\ get_stats(load_statistics(statsFile), load_sessions(sessionsFile))
               = { [total_sessions |-> 0, unusual_count |-> 0,
                    activities |-> <<>>, last_updated |-> 0] }
        /\ \A limit \in Limits :
               get_sessions(load_sessions(sessionsFile), limit)
                   = [sessions |-> <<>>, count |-> 0]

\* The reset was the last request, after every other one had been classified
\* and answered.
C8_Witness ==
    /\ CleanReset
    /\ budget = 0
    /\ clock = MaxRequests - 1
    /\ \A u \in Threads : pc[u] = "idle"

\* ------------------------------------------------------ live frame cache
\* The positions whose next step reads or writes latest_frames.
AccessPcs == {"a_store", "g_read", "v_read", "d_read", "a_print"}

\* C9: a thread about to read or write latest_frames holds frame_lock.
C9_AccessUnderLock ==
    \A t \in Threads : pc[t] \in AccessPcs => frame_lock = t

\* ------------------------------------------------------ input errors
\* The step is an /api/analyze request answered with 400.
Rejected(t) ==
    /\ pc[t] = "idle"
    /\ pc'[t] = "idle"
    /\ budget' = budget - 1
    /\ resp'.op = "analyze"
    /\ resp'.code = 400

\* C10: a request without an image, or with one that does not decode, is
\* answered with 400 and changes neither the log, the statistics nor the
\* frame cache.
C10_RejectedChangesNothing ==
    [][\A t \in Threads :
          Rejected(t) => UNCHANGED <<sessionsFile, statsFile, latest_frames>>]_vars

\* A rejected request while the log, the statistics and the cache hold data.
C10_Witness ==
    /\ resp = [op |-> "analyze", code |-> 400, body |-> "Failed to decode image"]
    /\ sessionsFile.st = "ok"
    /\ statsFile.st = "ok"
    /\ DOMAIN latest_frames # {}

\* ------------------------------------------------------ unexpected failures
\* The step is thread t's /api/analyze request answered with 500.
Failed(t) ==
    /\ pc[t] \in AnalyzePcs
    /\ pc'[t] = "idle"
    /\ resp'.op = "analyze"
    /\ resp'.code = 500

InLog(r, file) ==
    \E i \in DOMAIN load_sessions(file) : load_sessions(file)[i] = r

\* What holds of every statistics document that counts the record r.
MayCount(file, r) ==
    /\ file.st = "ok"
    /\ r.activity \in DOMAIN file.data.activities
    /\ file.data.last_updated >= r.timestamp

\* C11: when an /api/analyze request is answered with 500, either its record
\* is not in the log or the statistics count it.
C11_FailureKeepsLogAndStatsTogether ==
    [][\A t \in Threads :
          (Failed(t) /\ InLog(analysis[t], sessionsFile'))
              => MayCount(statsFile', analysis[t])]_vars

\* ------------------------------------------------------ fallback classifier
\* The rules of section 4.3 of the specification, by number.
FallbackRuleMatches(i, image) ==
    CASE i = 1 -> image.face_count = 0
      [] i = 2 -> image.edge_density > 15
      [] i = 3 -> image.brightness < 50
      [] i = 4 -> TRUE

FallbackRuleOutcome ==
    << [activity |-> "Student Absent", is_unusual |-> TRUE, confidence_score |-> 60],
       [activity |-> "High Activity Detected", is_unusual |-> FALSE, confidence_score |-> 60],
       [activity |-> "Low Visibility", is_unusual |-> TRUE, confidence_score |-> 60],
       [activity |-> "Attentive", is_unusual |-> FALSE, confidence_score |-> 60] >>

FirstFallbackRule(image) ==
    CHOOSE i \in 1..4 :
        FallbackRuleMatches(i, image) /\ \A j \in 1..(i - 1) : ~FallbackRuleMatches(j, image)

\* C12: the fallback classifier returns the outcome of the first of its four
\* rules that matches (no face, edge density above 15, brightness below 50,
\* otherwise attentive), always with confidence 0.60.
C12_FallbackOrder ==
    \A t \in Threads :
        (Classified(t) /\ ~modelsLoaded) =>
            Decision(analysis[t]) = FallbackRuleOutcome[FirstFallbackRule(req[t].image)]

\* A dark image full of edges with a face in it: the edge rule decides.
C12_Witness ==
    \E t \in Threads :
        /\ Classified(t) /\ ~modelsLoaded
        /\ req[t].image.face_count = 1
        /\ req[t].image.edge_density = 16
        /\ req[t].image.brightness = 49
        /\ analysis[t].activity = "High Activity Detected"
        /\ analysis[t].confidence_score = 60


\* ------------------------------------------------------ cache ownership
\* The step is thread t storing the frame of its request (app.py:277).
Stores(t) == pc[t] = "a_store" /\ pc'[t] = "a_classify"

\* C13: an ingest that passed decoding puts its frame in the entry of its
\* subject, replacing the one that was there, and leaves the entries of the
\* other subjects as they were; between two ingests the cache does not change.
C13_SingleSlotPerSubject ==
    [][/\ \A t \in Threads :
            Stores(t) =>
                /\ DOMAIN latest_frames' = DOMAIN latest_frames \cup {req[t].student_id}
                /\ latest_frames'[req[t].student_id] = req[t].image
                /\ \A s \in DOMAIN latest_frames \ {req[t].student_id} :
                       latest_frames'[s] = latest_frames[s]
       /\ (\A t \in Threads : ~Stores(t)) => UNCHANGED latest_frames]_vars

\* The second frame of a camera has replaced its first, which was recorded.
C13_Witness ==
    \E t \in Threads :
        /\ pc[t] = "a_classify"
        /\ latest_frames = [s \in {req[t].student_id} |-> req[t].image]
        /\ \E r \in okd :
               /\ r.student_id = req[t].student_id
               /\ r.objects_detected # req[t].image.objects

\* The positions of the streaming loop, active_streams and debug_info.
ReaderPcs ==
    {"g_lock", "g_read", "g_emit", "g_sleep", "v_read",
     "d_read", "d_load_sessions", "d_load_stats"}

\* The step is one of thread t in the streaming loop, active_streams or
\* debug_info.
ReaderStep(t) ==
    /\ pc'[t] # pc[t]
    /\ pc[t] \in ReaderPcs \/ pc'[t] \in ReaderPcs

\* C14: no step of the streaming loop, of active_streams or of debug_info
\* adds, removes or replaces an entry of the cache.
C14_OnlyIngestMutates ==
    [][\A t \in Threads : ReaderStep(t) => UNCHANGED latest_frames]_vars

\* A stream of a subject that is not in the cache has read its placeholder,
\* and active_streams has answered since without that subject.
C14_Witness ==
    /\ resp.op = "active_streams"
    /\ \E t \in Threads :
           /\ pc[t] \in {"g_emit", "g_sleep", "g_lock"}
           /\ frame[t] = Placeholder(req[t].student_id)
           /\ req[t].student_id \notin resp.body
           /\ req[t].student_id \notin DOMAIN latest_frames

\* C15: each iteration of a streaming loop reads the frame of its subject
\* when the cache has one at that moment and the placeholder naming the
\* subject otherwise, and emits what it read with success.
C15_PlaceholderUntilIngest ==
    [][\A t \in Threads :
          /\ (pc[t] = "g_read" /\ pc'[t] = "g_emit") =>
                 /\ req[t].student_id \in DOMAIN latest_frames =>
                        frame'[t] = latest_frames[req[t].student_id]
                 /\ req[t].student_id \notin DOMAIN latest_frames =>
                        /\ frame'[t] = Placeholder(req[t].student_id)
                        /\ frame'[t] # NoImage
          /\ (pc[t] = "g_emit" /\ pc'[t] = "g_sleep") =>
                 resp' = [op |-> "stream", code |-> 200, body |-> frame[t]]]_vars

\* A loop that emitted the placeholder has read, in a later iteration, the
\* frame an ingest stored in between.
C15_Witness ==
    \E t \in Threads :
        /\ pc[t] = "g_emit"
        /\ resp = [op |-> "stream", code |-> 200, body |-> Placeholder(req[t].student_id)]
        /\ req[t].student_id \in DOMAIN latest_frames
        /\ frame[t] = latest_frames[req[t].student_id]


\* ------------------------------------------------------ independence
\* The positions at which a thread waits for frame_lock.
LockWaitPcs == {"a_lock", "g_lock"}

\* The positions at which a thread holds frame_lock.
CopyPcs == {"a_store", "g_read", "v_read", "d_read"}

\* Any step of thread t.
ThreadStep(t) == Analyze(t) \/ ClearData(t) \/ Views(t) \/ Stream(t)

\* C19 as stated: an ingest or a streaming iteration for one subject never
\* waits while an operation on the cache entry of another subject is under way.
C19_NeverWaitsForAnotherCamera ==
    \A t, u \in Threads :
        (pc[t] \in LockWaitPcs /\ frame_lock = u /\ pc[u] \in {"a_store", "g_read"})
            => req[u].student_id = req[t].student_id

\* C19 as amended: an operation waits for another only to acquire
\* frame_lock; the holder of frame_lock is at the copy or replacement of one
\* cache entry and releases the lock in its next step.
C19_WaitsOnlyForOneCopy ==
    /\ [](\A t \in Threads :
             (pc[t] # "idle" /\ (pc[t] \in LockWaitPcs => frame_lock = 0))
                 => ENABLED ThreadStep(t))
    /\ [][/\ frame_lock' # 0 => pc'[frame_lock'] \in CopyPcs
          /\ \A u \in Threads :
                 (frame_lock = u /\ pc'[u] # pc[u]) => frame_lock' = 0]_vars

\* An ingest waits for the lock while a stream copies the entry of another
\* subject.
C19_Witness ==
    \E t, u \in Threads :
        /\ pc[t] = "a_lock"
        /\ frame_lock = u
        /\ pc[u] = "g_read"
        /\ req[u].student_id # req[t].student_id


\* ------------------------------------------------------ routing
\* The step is thread t classifying the image of its request.
Classifies(t) == pc[t] = "a_classify" /\ pc'[t] = "a_load_sessions"

\* C16: the detectors are both available or both unavailable, they never
\* change after startup, and every request is classified by the primary
\* classifier when they are available and by the fallback classifier when
\* they are not.
C16_RoutingFixedAtStartup ==
    [][/\ object_detector' = object_detector
       /\ pose_detector' = pose_detector
       /\ object_detector = pose_detector
       /\ \A t \in Threads :
              Classifies(t) =>
                  /\ object_detector =>
                         analysis'[t] = analyze_image_advanced(
                                            req[t].image, req[t].student_id, clock')
                  /\ ~object_detector =>
                         analysis'[t] = analyze_image_basic(
                                            req[t].image, req[t].student_id, clock')]_vars

\* Without the models, a request classified after another one was answered:
\* both by the fallback classifier.
C16_Witness ==
    /\ ~object_detector /\ ~pose_detector
    /\ okd # {}
    /\ \A r \in okd : r.activity = "Attentive" /\ r.confidence_score = 60
    /\ \E t \in Threads :
           /\ Classified(t)
           /\ analysis[t].activity = "Attentive"
           /\ \A r \in okd : r.timestamp < analysis[t].timestamp

\* ------------------------------------------------------ statelessness
\* What the classifiers were given: the subject and the detector outputs.
Inputs(r) ==
    [x \in DOMAIN r \ {"activity", "is_unusual", "confidence_score", "timestamp"} |-> r[x]]

\* Every result of this run: answered, in flight, or in the log.
Results ==
    okd \cup {analysis[t] : t \in {u \in Threads : Classified(u)}}
        \cup {load_sessions(sessionsFile)[i] : i \in DOMAIN load_sessions(sessionsFile)}

MostRecent(log, n) ==
    SubSeq(log, 1, IF n < 0 THEN 0 ELSE IF n > Len(log) THEN Len(log) ELSE n)

\* The step is thread t answering GET /api/sessions with success.
SessionsAnswered(t) ==
    /\ pc[t] = "l_load"
    /\ pc'[t] = "idle"
    /\ resp'.code = 200

\* C17: for every accepted limit and every log, the answer of /api/sessions
\* holds the limit most recent records, all of them when the log is shorter,
\* newest first, and count is their number.
C17_MostRecentLimit ==
    [][\A t \in Threads :
          SessionsAnswered(t) =>
              /\ resp'.body.sessions = MostRecent(load_sessions(sessionsFile), req[t].limit)
              /\ resp'.body.count = Len(resp'.body.sessions)]_vars

\* The step is thread t answering GET /api/stats with success.
StatsAnswered(t) ==
    /\ pc[t] = "s_load_sessions"
    /\ pc'[t] = "idle"
    /\ resp'.code = 200

\* The step is one of thread t in get_stats.
StatsStep(t) ==
    \/ pc[t] = "s_load_sessions" /\ pc'[t] = "idle"
    \/ pc[t] = "idle" /\ pc'[t] = "s_load_sessions"

ComputedFields == {"average_confidence", "activity_distribution", "recent_sessions"}

\* The body carries every field of the statistics document.
CarriesStatistics(body, document) ==
    \A k \in DOMAIN document : k \in DOMAIN body /\ body[k] = document[k]

\* The distribution counts the activities of the RECENT_DIST most recent
\* records and recent_sessions is the RECENT_LIST most recent records.
WindowsAsDocumented(body, log) ==
    LET dist == MostRecent(log, RECENT_DIST)
    IN  /\ DOMAIN body.activity_distribution = {dist[i].activity : i \in DOMAIN dist}
        /\ \A a \in DOMAIN body.activity_distribution :
               body.activity_distribution[a] =
                   Cardinality({i \in DOMAIN dist : dist[i].activity = a})
        /\ body.recent_sessions = MostRecent(log, RECENT_LIST)

\* n times the average less the sum of the confidences of the RECENT_CONF
\* most recent records, in hundredths.
MeanError(body, log) ==
    LET conf == MostRecent(log, RECENT_CONF)
    IN  Len(conf) * body.average_confidence - SumConfidence(conf)

\* C18 as stated: for every log, a successful stats() carries the statistics
\* and the three computed fields, the average being the mean over the most
\* recent RECENT_CONF records, and changes neither file.
C18_StatsWithComputedFields ==
    [][\A t \in Threads :
          /\ StatsStep(t) => UNCHANGED <<sessionsFile, statsFile>>
          /\ StatsAnswered(t) =>
                 LET log == load_sessions(sessionsFile)
                 IN  /\ CarriesStatistics(resp'.body, stats[t])
                     /\ ComputedFields \subseteq DOMAIN resp'.body
                     /\ MeanError(resp'.body, log) = 0
                     /\ WindowsAsDocumented(resp'.body, log)]_vars

\* C18 as amended: for a log that is not empty the body carries the
\* statistics and the three computed fields, the average being the mean
\* rounded to a hundredth; for an empty log it is the statistics alone; the
\* call changes neither file.
C18_StatsOverNonEmptyLog ==
    [][\A t \in Threads :
          /\ StatsStep(t) => UNCHANGED <<sessionsFile, statsFile>>
          /\ StatsAnswered(t) =>
                 LET log == load_sessions(sessionsFile)
                     n == Len(MostRecent(log, RECENT_CONF))
                 IN  /\ CarriesStatistics(resp'.body, stats[t])
                     /\ log = <<>> => DOMAIN resp'.body = DOMAIN stats[t]
                     /\ log # <<>> =>
                            /\ DOMAIN resp'.body = DOMAIN stats[t] \cup ComputedFields
                            /\ 2 * MeanError(resp'.body, log) <= n
                            /\ 2 * MeanError(resp'.body, log) >= -n
                            /\ WindowsAsDocumented(resp'.body, log)]_vars

\* stats() has answered over a full log, longer than each of the windows,
\* while the statistics count more records than the log retains.
C18_Witness ==
    /\ resp.op = "stats"
    /\ resp.code = 200
    /\ Len(load_sessions(sessionsFile)) = SESSION_CAP
    /\ SESSION_CAP > RECENT_DIST
    /\ resp.body.total_sessions > SESSION_CAP
    /\ Len(resp.body.recent_sessions) = RECENT_LIST
    /\ SumCounts(resp.body.activity_distribution) = RECENT_DIST

\* ------------------------------------------------------ result ranges
\* C21: the confidence_score of every result of either classifier lies
\* between 0 and 1 (0 and 100 hundredths).
C21_ConfidenceInUnitInterval ==
    \A t \in Threads :
        Classified(t) =>
            /\ analysis[t].confidence_score >= 0
            /\ analysis[t].confidence_score <= 100

\* The highest confidence of the cascade, 0.95, has been returned.
C21_Witness ==
    \E t \in Threads :
        /\ Classified(t) /\ modelsLoaded
        /\ analysis[t].confidence_score = 95
        /\ \A image \in AllImages :
               analyze_image_advanced(image, "cam1", 1).confidence_score <= 95

\* ------------------------------------------------------ pose flags
\* Twice the average of the two shoulder coordinates.
TwiceShoulderAverage(points) == points.left_shoulder_y + points.right_shoulder_y

\* C27 as stated: with at least 11 keypoints, head_down is true exactly when
\* the nose lies more than 30 pixels below the average of the shoulders and
\* the nose coordinate and that average are both positive.
C27_HeadDownNoseAndAverageValid ==
    \A t \in Threads :
        (Classified(t) /\ modelsLoaded /\ req[t].image.points.n >= 11) =>
            LET points == req[t].image.points
            IN  analysis[t].head_down <=>
                    /\ 2 * points.nose_y > TwiceShoulderAverage(points) + 60
                    /\ points.nose_y > 0
                    /\ TwiceShoulderAverage(points) > 0

\* C27 as amended: with at least 11 keypoints, head_down is true exactly when
\* the nose lies more than 30 pixels below the average of the shoulders and
\* the nose and the left shoulder coordinates are both positive.
C27_HeadDownNoseAndLeftShoulderValid ==
    \A t \in Threads :
        (Classified(t) /\ modelsLoaded /\ req[t].image.points.n >= 11) =>
            LET points == req[t].image.points
            IN  /\ (points.nose_y = 0 \/ points.left_shoulder_y = 0) => ~analysis[t].head_down
                /\ (points.nose_y > 0 /\ points.left_shoulder_y > 0) =>
                       (analysis[t].head_down <=>
                            2 * points.nose_y - 60 > TwiceShoulderAverage(points))

\* The left shoulder was not found, the right one lies at 200 and the nose
\* at 131, more than 30 below the average of 100: head_down is false.
C27_Witness ==
    \E t \in Threads :
        /\ Classified(t) /\ modelsLoaded
        /\ req[t].image.points.n >= 11
        /\ req[t].image.points.left_shoulder_y = 0
        /\ req[t].image.points.right_shoulder_y = 200
        /\ req[t].image.points.nose_y = 131
        /\ ~analysis[t].head_down

\* ------------------------------------------------------ unreachable rule
\* The labels of the cascade without that of rule 8.
ProducedLabels ==
    {RuleOutcome[i].activity : i \in 1..9} \ {"Writing/Focused"}

\* C28: the primary classifier never returns "Writing/Focused": its label
\* is one of the other eight, and with the head down the result is that of
\* one of the rules 1 to 7.
C28_WritingFocusedNeverReturned ==
    \A t \in Threads :
        (Classified(t) /\ modelsLoaded) =>
            /\ analysis[t].activity # "Writing/Focused"
            /\ analysis[t].activity \in ProducedLabels
            /\ analysis[t].head_down => FirstRule(req[t].image) < 8

\* The head is down and nothing but the person is in the picture: rule 4
\* decides before rule 8 is reached.
C28_Witness ==
    \E t \in Threads :
        /\ Classified(t) /\ modelsLoaded
        /\ analysis[t].head_down /\ ~analysis[t].hand_raised
        /\ req[t].image.objects = {"person"}
        /\ RuleMatches(8, req[t].image)
        /\ analysis[t].activity = "Sleeping/Distracted"

\* ------------------------------------------------------ lock scope
\* The positions at which a thread has decoded its image and waits for the
\* lock, classifies, reads or writes the persisted files, encodes and emits
\* a frame, or sleeps between two frames.
WorkPcs ==
    (AnalyzePcs \ {"a_store"})
        \cup {"g_lock", "g_emit", "g_sleep", "d_load_sessions", "d_load_stats"}

\* C22: a thread that decodes, classifies, persists, encodes, emits or
\* sleeps does not hold frame_lock, nor does one that has answered; an
\* ingest waiting for the lock while every other request is a stream stalled
\* at its emission can acquire it.
C22_LockHeldOnlyForCopy ==
    /\ \A t \in Threads : pc[t] \in WorkPcs \cup {"idle"} => frame_lock # t
    /\ \A u \in Threads :
           (pc[u] = "a_lock" /\ \A t \in Threads \ {u} : pc[t] \in {"g_emit", "g_sleep"})
               => ENABLED AnalyzeAcquire(u)

\* A stream has read its frame and not yet emitted it; an ingest has
\* acquired the lock meanwhile and is about to replace the entry.
C22_Witness ==
    \E t, u \in Threads :
        /\ pc[t] = "g_emit"
        /\ pc[u] = "a_store"
        /\ frame_lock = u

\* ------------------------------------------------------ reset and records
\* A clear_data has been called, it has returned, and no request is in
\* flight.
ResetFinished == cleared /\ \A t \in Threads : pc[t] = "idle"

\* C23: once clear_data has returned and the requests in flight have
\* finished, the log holds no record that was written to it before the reset
\* began, and the log is not empty while the statistics still count a record
\* written before the reset began.
C23_ResetNeverPartial ==
    (ResetFinished /\ Readable(sessionsFile) /\ Readable(statsFile)) =>
        LET log == load_sessions(sessionsFile)
            st == load_statistics(statsFile)
        IN  /\ Timestamps(log) \cap prior = {}
            /\ log = <<>> => st.total_sessions <= Cardinality(logged \ prior)

\* The step is thread t writing a log that lacks a record of the log it
\* replaces.
Evicts(t) ==
    /\ pc[t] = "a_dump_sessions"
    /\ pc'[t] = "a_load_stats"
    /\ sessionsFile'.st = "ok"
    /\ \E ts \in Timestamps(load_sessions(sessionsFile)) :
           ts \notin Timestamps(sessionsFile'.data)

\* C24: without a reset and with no record() in progress, total_sessions is
\* at least the number of entries of the log; the step that evicts a record
\* from the log leaves the statistics as they are.
C24_CountsCoverLog ==
    /\ []((~cleared /\ NoAnalyzeInFlight /\ Readable(sessionsFile) /\ Readable(statsFile))
             => load_statistics(statsFile).total_sessions
                    >= Len(load_sessions(sessionsFile)))
    /\ [][\A t \in Threads : Evicts(t) => UNCHANGED statsFile]_vars

\* The step is one of thread t in save_session or update_statistics.
RecordStep(t) == pc[t] \in AnalyzePcs /\ pc'[t] # pc[t]

\* C25: a record() writes the log before it writes the statistics: every
\* record counted has been logged, the log a record() has just written
\* starts with its record, a record() changes the statistics file only once
\* it has written the log, and a request that fails has not counted its
\* record.
C25_LogWrittenBeforeStatistics ==
    /\ [](counted \subseteq logged)
    /\ [][\A t \in Threads :
             /\ (RecordStep(t) /\ statsFile' # statsFile) =>
                    analysis[t].timestamp \in logged
             /\ (RecordStep(t) /\ sessionsFile' # sessionsFile /\ sessionsFile'.st = "ok") =>
                    /\ Head(sessionsFile'.data) = analysis[t]
                    /\ analysis[t].timestamp \notin counted'
             /\ Failed(t) => analysis[t].timestamp \notin counted']_vars

\* A request has failed between its two writes: the log holds its record
\* and no statistics written count it.
C25_Witness ==
    /\ resp.op = "analyze"
    /\ resp.code = 500
    /\ \E ts \in logged \ counted :
           /\ \A t \in Threads : analysis[t].timestamp # ts
           /\ ts \in Timestamps(load_sessions(sessionsFile))

\* ------------------------------------------------------ cache lifetime
\* The step is one of thread t in clear_data.
ClearStep(t) ==
    /\ pc'[t] # pc[t]
    /\ pc[t] \in ClearPcs \/ pc'[t] \in ClearPcs

\* The step is thread t answering GET /api/active_streams.
StreamsAnswered(t) == pc[t] = "v_read" /\ pc'[t] = "idle"

\* C29: no step of clear_data changes the frame cache, no step of any
\* operation removes a key from it, and each answer of /api/active_streams
\* is the key set of that moment, which holds every key of the answer
\* before it.
C29_CacheKeysOnlyGrow ==
    [][/\ \A t \in Threads : ClearStep(t) => UNCHANGED latest_frames
       /\ DOMAIN latest_frames \subseteq DOMAIN latest_frames'
       /\ \A t \in Threads :
              StreamsAnswered(t) =>
                  /\ resp'.body = DOMAIN latest_frames
                  /\ resp.op = "active_streams" => resp.body \subseteq resp'.body]_vars

\* A reset that followed a recorded ingest has removed both files, and
\* /api/active_streams has answered since with the camera of that ingest.
C29_Witness ==
    /\ prior # {}
    /\ sessionsFile.st = "absent"
    /\ statsFile.st = "absent"
    /\ resp.op = "active_streams"
    /\ resp.body # {}
    /\ resp.body = DOMAIN latest_frames

\* ------------------------------------------------------ streaming loop
\* The positions of the streaming loop.
LoopPcs == {"g_lock", "g_read", "g_emit", "g_sleep"}

\* The step is thread t emitting a frame.
Emits(t) == pc[t] = "g_emit" /\ pc'[t] = "g_sleep"

====
